---- MODULE Spec2Model ----
(***************************************************************************)
(* A model of camlistore's pkg/client/config.go: the lazily resolved,      *)
(* process-wide configuration (configOnce / parseConfig), the server       *)
(* resolver (cleanServer / serverOrDie), the auth resolver (SetupAuth),    *)
(* the identity resolver (SignerPublicKeyBlobref) and the trust resolver   *)
(* (GetTrustedCerts), called from several goroutines.                      *)
(*                                                                         *)
(* Go strings whose characters matter (server URLs, fingerprints) are      *)
(* sequences of one-character strings.  JSON values are tagged records.    *)
(***************************************************************************)
EXTENDS Integers, Sequences, FiniteSets, TLC

VARIABLES
    flagServer,              \* *flagServer; <<>> when the flag is nil or ""
    envTrustedCert,          \* os.Getenv("CAMLI_TRUSTED_CERT")
    envAuth,                 \* the environment's auth setting ("" when unset)
    configFile,              \* the file at ConfigFilePath(), on disk
    disk,                    \* keyring files and the selfPubKeyDir directory
    pubFile,                 \* content of <selfPubKeyDir>/<blobref>.camli
    configOnce,              \* sync.Once guarding parseConfig
    config,                  \* var config
    parseConfigErr,          \* var parseConfigErr
    signerPublicKeyRefOnce,  \* sync.Once guarding initSignerPublicKeyBlobref
    signerPublicKeyRef,      \* var signerPublicKeyRef
    initTrustedCertsOnce,    \* sync.Once guarding (*Client).initTrustedCerts
    client,                  \* the Client instances' authMode and trustedCerts
    th,                      \* each goroutine's position, call and last return
    exited,                  \* how the process ended ("no" while it runs)
    calls,                   \* history: accessor calls started
    parseCount,              \* history: executions of parseConfig
    loaded,                  \* history: config and parseConfigErr as first loaded
    sigRuns,                 \* history: executions of getSignerPublicKeyBlobref
    pubStat,                 \* history: what os.Stat(pubFile) found
    pubWrites,               \* history: ioutil.WriteFile calls on the blob file
    sigRets                  \* history: values SignerPublicKeyBlobref returned

vars == << flagServer, envTrustedCert, envAuth, configFile, disk, pubFile,
           configOnce, config, parseConfigErr, signerPublicKeyRefOnce,
           signerPublicKeyRef, initTrustedCertsOnce, client, th, exited,
           calls, parseCount, loaded, sigRuns, pubStat, pubWrites, sigRets >>

-----------------------------------------------------------------------------
(* Bounds *)

NumThreads == 2        \* goroutines calling the accessors concurrently
NumClients == 2        \* Client instances
MaxCalls == 3          \* accessor calls per run
MaxServerLen == 2      \* characters of a server string after its scheme part
MaxFpLen == 1          \* characters of a certificate fingerprint
MaxCerts == 2          \* elements of a trustedCerts list

Threads == 1..NumThreads
Clients == 1..NumClients

-----------------------------------------------------------------------------
(* Strings *)

RECURSIVE SeqsUpTo(_, _)
SeqsUpTo(S, n) ==
    IF n = 0 THEN {<<>>}
    ELSE LET shorter == SeqsUpTo(S, n - 1)
         IN  shorter \cup {Append(s, x) : s \in shorter, x \in S}

HasPrefix(s, prefix) ==
    Len(s) >= Len(prefix) /\ SubSeq(s, 1, Len(prefix)) = prefix

HasSuffix(s, suffix) ==
    Len(s) >= Len(suffix) /\ SubSeq(s, Len(s) - Len(suffix) + 1, Len(s)) = suffix

ToLowerChar(ch) ==
    CASE ch = "A" -> "a"
      [] ch = "B" -> "b"
      [] OTHER -> ch

ToLower(s) == [i \in 1..Len(s) |-> ToLowerChar(s[i])]

-----------------------------------------------------------------------------
(* JSON values of the configuration mapping *)

Missing == [t |-> "missing"]
Str(s) == [t |-> "string", v |-> s]
Num == [t |-> "number"]
List(l) == [t |-> "list", v |-> l]

IsStr(x) == x.t = "string"

ConfigKeys == {"server", "auth", "secretRing", "keyId", "selfPubKeyDir", "trustedCerts"}

\* var config = make(map[string]interface{}): no key present.
EmptyConfig == [k \in ConfigKeys |-> Missing]

\* What the config path holds: no file, a file jsonconfig.ReadFile rejects,
\* or a JSON object.
NoFile == [t |-> "nofile"]
Malformed == [t |-> "malformed"]
Parsed(obj) == [t |-> "object", v |-> obj]

-----------------------------------------------------------------------------
(* cleanServer *)

HttpPrefix == <<"h", "t", "t", "p">>
HttpsPrefix == <<"h", "t", "t", "p", "s">>
HttpsScheme == <<"h", "t", "t", "p", "s", ":", "/", "/">>
HttpScheme == <<"h", "t", "t", "p", ":", "/", "/">>

cleanServer(server) ==
    LET stripped == IF HasSuffix(server, <<"/">>)
                    THEN SubSeq(server, 1, Len(server) - 1)
                    ELSE server
    IN  IF ~HasPrefix(stripped, HttpPrefix) /\ ~HasPrefix(stripped, HttpsPrefix)
        THEN HttpsScheme \o stripped
        ELSE stripped

-----------------------------------------------------------------------------
(* Goroutines *)

NoRet == [kind |-> "none"]
Idle == [pc |-> "idle", op |-> "none", c |-> 0, ret |-> NoRet, held |-> <<>>]

Running == exited = "no"

\* A goroutine at pc moves to another pc.
Goto(t, pc) == th' = [th EXCEPT ![t].pc = pc]

\* The goroutine becomes the one that runs the function of a sync.Once (held
\* lists the Onces whose function it is inside, outermost first) and moves to
\* pc; the function returns and the goroutine moves to pc.
Acquire(t, once, pc) == th' = [th EXCEPT ![t].pc = pc, ![t].held = Append(@, once)]
Release(t, pc) == th' = [th EXCEPT ![t].pc = pc, ![t].held = SubSeq(@, 1, Len(@) - 1)]

\* A call returns val to its caller.
Return(t, val) == th' = [th EXCEPT ![t].pc = "idle", ![t].c = 0, ![t].ret = val]

\* A call starts: the goroutine is idle and the run's budget allows it.
Begin(t, op, c, pc) ==
    /\ Running
    /\ th[t].pc = "idle"
    /\ calls < MaxCalls
    /\ calls' = calls + 1
    /\ th' = [th EXCEPT ![t] = [pc |-> pc, op |-> op, c |-> c, ret |-> NoRet, held |-> <<>>]]

\* A goroutine of the running process is at pc, inside a call of op.
At(t, op, pc) == Running /\ th[t].pc = pc /\ th[t].op = op

-----------------------------------------------------------------------------
(* configOnce.Do(parseConfig) *)

NotLoaded == [done |-> FALSE, config |-> EmptyConfig, err |-> "nil"]
\* The first completed load is the one recorded.
Loaded(conf, err) ==
    IF loaded.done THEN loaded ELSE [done |-> TRUE, config |-> conf, err |-> err]

UnchangedInputs == UNCHANGED << flagServer, envTrustedCert, envAuth, disk >>
UnchangedSigner ==
    UNCHANGED << signerPublicKeyRefOnce, signerPublicKeyRef, pubFile, sigRuns, pubStat,
                 pubWrites, sigRets >>
UnchangedTrust == UNCHANGED << initTrustedCertsOnce >>
UnchangedConfig == UNCHANGED << configOnce, config, parseConfigErr, parseCount, loaded >>

\* ConfigOnceDo without the Once: a caller that finds the load done loads again.
ConfigOnceDo_NoOnce(t) ==
    /\ Running
    /\ th[t].pc = "cfg_once"
    /\ configOnce \in {"new", "done"}
    /\ configOnce' = "running"
    /\ parseCount' = parseCount + 1
    /\ Acquire(t, "config", "parse_stat")
    /\ UNCHANGED << config, parseConfigErr, loaded, configFile, client, exited, calls >>
    /\ UnchangedInputs /\ UnchangedSigner /\ UnchangedTrust

\* sync.Once.Do: the first caller runs parseConfig, a caller that arrives
\* while it runs waits (the action is disabled), a later caller passes.
ConfigOnceDo(t) ==
    /\ Running
    /\ th[t].pc = "cfg_once"
    /\ \/ /\ configOnce = "done"
          /\ Goto(t, "body")
          /\ UNCHANGED << configOnce, parseCount >>
       \/ /\ configOnce = "new"
          /\ configOnce' = "running"
          /\ parseCount' = parseCount + 1
          /\ Acquire(t, "config", "parse_stat")
    /\ UNCHANGED << config, parseConfigErr, loaded, configFile, client, exited, calls >>
    /\ UnchangedInputs /\ UnchangedSigner /\ UnchangedTrust

\* parseConfigStat calling back into configOnce.Do, as it would if parseConfig
\* used one of the accessors that load the configuration.
parseConfigStat_Reenter(t) ==
    /\ Running
    /\ th[t].pc = "parse_stat"
    /\ Goto(t, "cfg_once")
    /\ UNCHANGED << parseConfigErr, configOnce, loaded >>
    /\ UNCHANGED << config, parseCount, configFile, client, exited, calls >>
    /\ UnchangedInputs /\ UnchangedSigner /\ UnchangedTrust

\* parseConfig, to its os.Stat: a missing file is recorded, not fatal.
parseConfigStat(t) ==
    /\ Running
    /\ th[t].pc = "parse_stat"
    /\ IF configFile = NoFile
       THEN /\ parseConfigErr' = "ErrNotExist"
            /\ configOnce' = "done"
            /\ loaded' = Loaded(config, "ErrNotExist")
            /\ Release(t, "body")
       ELSE /\ Goto(t, "parse_read")
            /\ UNCHANGED << parseConfigErr, configOnce, loaded >>
    /\ UNCHANGED << config, parseCount, configFile, client, exited, calls >>
    /\ UnchangedInputs /\ UnchangedSigner /\ UnchangedTrust

\* parseConfig, its jsonconfig.ReadFile: an error (the file is malformed, or
\* was removed since the Stat) is fatal.
parseConfigRead(t) ==
    /\ Running
    /\ th[t].pc = "parse_read"
    /\ IF configFile.t = "object"
       THEN /\ config' = configFile.v
            /\ configOnce' = "done"
            /\ loaded' = Loaded(configFile.v, parseConfigErr)
            /\ Release(t, "body")
            /\ UNCHANGED exited
       ELSE /\ config' = EmptyConfig
            /\ exited' = "fatal"
            /\ UNCHANGED << configOnce, loaded, th >>
    /\ UNCHANGED << parseConfigErr, parseCount, configFile, client, calls >>
    /\ UnchangedInputs /\ UnchangedSigner /\ UnchangedTrust

-----------------------------------------------------------------------------
(* serverOrDie *)

ServerRet(s) == [kind |-> "server", v |-> s]

\* serverOrDie after configOnce.Do: "fatal" is log.Fatalf, "panic" the failed
\* type assertion value.(string).
serverFromConfig(conf) ==
    LET value == conf["server"]
        ok == value # Missing
        server == IF ok THEN value.v ELSE <<>>
    IN  IF ok /\ ~IsStr(value) THEN [kind |-> "panic"]
        ELSE IF ~ok \/ cleanServer(server) = <<>> THEN [kind |-> "fatal"]
        ELSE ServerRet(cleanServer(server))

serverOrDie(t) ==
    /\ Begin(t, "serverOrDie", 0, IF flagServer # <<>> THEN "flag_server" ELSE "cfg_once")
    /\ UNCHANGED << configFile, client, exited >>
    /\ UnchangedInputs /\ UnchangedSigner /\ UnchangedTrust /\ UnchangedConfig

\* return cleanServer(*flagServer)
serverOrDieFlag(t) ==
    /\ At(t, "serverOrDie", "flag_server")
    /\ Return(t, ServerRet(cleanServer(flagServer)))
    /\ UNCHANGED << configFile, client, exited, calls >>
    /\ UnchangedInputs /\ UnchangedSigner /\ UnchangedTrust /\ UnchangedConfig

serverOrDieConfig(t) ==
    /\ At(t, "serverOrDie", "body")
    /\ LET r == serverFromConfig(config)
       IN  IF r.kind = "server"
           THEN Return(t, r) /\ UNCHANGED exited
           ELSE exited' = r.kind /\ UNCHANGED th
    /\ UNCHANGED << configFile, client, calls >>
    /\ UnchangedInputs /\ UnchangedSigner /\ UnchangedTrust /\ UnchangedConfig

-----------------------------------------------------------------------------
(* SetupAuth *)

NilAuth == [t |-> "nil"]
AuthRet(err) == [kind |-> "auth", err |-> err]

\* Auth strings auth.FromConfig accepts; any other string is malformed.
ValidAuthStrings == {"userpass:alice:secret", "userpass:env:secret"}

\* auth.FromConfig(authString): the mode the string describes, or an error.
FromConfig(authString) ==
    IF authString \in ValidAuthStrings
    THEN [mode |-> [t |-> "config", v |-> authString], err |-> "nil"]
    ELSE [mode |-> NilAuth, err |-> "ErrMalformed"]

\* auth.FromEnv(): the mode the environment describes, or auth.ErrNoAuth.
FromEnv ==
    IF envAuth = "" THEN [mode |-> NilAuth, err |-> "ErrNoAuth"]
    ELSE IF envAuth \in ValidAuthStrings
    THEN [mode |-> [t |-> "env", v |-> envAuth], err |-> "nil"]
    ELSE [mode |-> NilAuth, err |-> "ErrMalformed"]

\* authFromConfig falling back to the environment when the "auth" string is
\* malformed.
authFromConfig_EnvOnError(conf) ==
    LET value == conf["auth"]
        ok == value # Missing
        authString == IF ok /\ IsStr(value) THEN value.v ELSE ""
    IN  IF ok /\ FromConfig(authString).err = "nil" THEN FromConfig(authString) ELSE FromEnv

\* SetupAuthFromConfig's choice: the "auth" key when present (a value that is
\* no string reads as ""), the environment otherwise.
authFromConfig(conf) ==
    LET value == conf["auth"]
        ok == value # Missing
        authString == IF ok /\ IsStr(value) THEN value.v ELSE ""
    IN  IF ok THEN FromConfig(authString) ELSE FromEnv

\* SetupAuth without the explicit-server branch: the file's auth is used.
SetupAuth_FileFallback(t, c) ==
    /\ Begin(t, "SetupAuth", c, "cfg_once")
    /\ UNCHANGED << configFile, client, exited >>
    /\ UnchangedInputs /\ UnchangedSigner /\ UnchangedTrust /\ UnchangedConfig

SetupAuth(t, c) ==
    /\ Begin(t, "SetupAuth", c, IF flagServer # <<>> THEN "auth_env" ELSE "cfg_once")
    /\ UNCHANGED << configFile, client, exited >>
    /\ UnchangedInputs /\ UnchangedSigner /\ UnchangedTrust /\ UnchangedConfig

\* The explicit-server branch: c.authMode, err = auth.FromEnv(); return err.
SetupAuthExplicit(t) ==
    /\ At(t, "SetupAuth", "auth_env")
    /\ client' = [client EXCEPT ![th[t].c].authMode = FromEnv.mode]
    /\ Return(t, AuthRet(FromEnv.err))
    /\ UNCHANGED << configFile, exited, calls >>
    /\ UnchangedInputs /\ UnchangedSigner /\ UnchangedTrust /\ UnchangedConfig

SetupAuthFromConfig(t) ==
    /\ At(t, "SetupAuth", "body")
    /\ client' = [client EXCEPT ![th[t].c].authMode = authFromConfig(config).mode]
    /\ Return(t, AuthRet(authFromConfig(config).err))
    /\ UNCHANGED << configFile, exited, calls >>
    /\ UnchangedInputs /\ UnchangedSigner /\ UnchangedTrust /\ UnchangedConfig

-----------------------------------------------------------------------------
(* Keyring files, SecretRingFile *)

IdentitySecretRing == "identity-secring.gpg"    \* osutil.IdentitySecretRing()
DefaultSecRingPath == "secring.gpg"             \* jsonsign.DefaultSecRingPath()
RingPaths == {"cfgring.gpg", IdentitySecretRing, DefaultSecRingPath}

\* Keys a keyring file holds when it holds any: "k1" serializes, "kx" is a
\* key jsonsign.ArmoredPublicKey fails on.
RingKeys == {"k1", "kx"}

fileExists(name) == name \in RingPaths /\ disk.rings[name] # "nofile"

PathRet(p) == [kind |-> "path", v |-> p]

secretRingFromConfig(conf) ==
    LET value == conf["secretRing"]
    IN  IF IsStr(value) /\ value.v # "" THEN value.v
        ELSE IF fileExists(IdentitySecretRing) THEN IdentitySecretRing
        ELSE DefaultSecRingPath

SecretRingFile(t) ==
    /\ Begin(t, "SecretRingFile", 0, "cfg_once")
    /\ UNCHANGED << configFile, client, exited >>
    /\ UnchangedInputs /\ UnchangedSigner /\ UnchangedTrust /\ UnchangedConfig

SecretRingFileReturn(t) ==
    /\ At(t, "SecretRingFile", "body")
    /\ Return(t, PathRet(secretRingFromConfig(config)))
    /\ UNCHANGED << configFile, client, exited, calls >>
    /\ UnchangedInputs /\ UnchangedSigner /\ UnchangedTrust /\ UnchangedConfig

-----------------------------------------------------------------------------
(* SignerPublicKeyBlobref *)

NilRef == [t |-> "nil"]
NoPubFile == [t |-> "absent"]
PubFile(data) == [t |-> "file", data |-> data]
ArmoredPublicKey(keyId) == <<"armored", keyId>>
SHA1FromString(text) == [t |-> "sha1", of |-> text]
BlobRet(ref) == [kind |-> "blobref", v |-> ref]
Absent(why) == [ok |-> FALSE, why |-> why]

\* jsonsign.EntityFromSecring(keyId, keyRing) finds the key.
EntityFromSecring(keyId, keyRing) ==
    /\ keyRing \in RingPaths
    /\ disk.rings[keyRing] = "keys"
    /\ keyId \in RingKeys

\* The keyring getSignerPublicKeyBlobref looks the key up in; "" when no
\* 'secretRing' is configured and no standard secret ring file exists.
signerKeyRing(conf) ==
    IF IsStr(conf["secretRing"]) THEN conf["secretRing"].v
    ELSE IF fileExists(IdentitySecretRing) THEN IdentitySecretRing
    ELSE IF fileExists(DefaultSecRingPath) THEN DefaultSecRingPath
    ELSE ""

\* signerLookup with a default key in place of the keyId check.
signerLookup_DefaultKeyId(conf) ==
    LET keyId == IF IsStr(conf["keyId"]) THEN conf["keyId"].v ELSE "k1"
    IN  IF ~IsStr(conf["secretRing"]) /\ signerKeyRing(conf) = "" THEN Absent("keyRing")
        ELSE IF ~EntityFromSecring(keyId, signerKeyRing(conf)) THEN Absent("entity")
        ELSE IF keyId = "kx" THEN Absent("armor")
        ELSE IF ~IsStr(conf["selfPubKeyDir"]) THEN Absent("selfPubKeyDir")
        ELSE IF ~(conf["selfPubKeyDir"].v = "pubdir" /\ disk.pubDir = "dir") THEN Absent("stat")
        ELSE [ok |-> TRUE, armored |-> ArmoredPublicKey(keyId)]

\* getSignerPublicKeyBlobref down to br := blobref.SHA1FromString(armored):
\* the armored key, or the step that gave up.
signerLookup(conf) ==
    IF ~IsStr(conf["keyId"]) THEN Absent("keyId")
    ELSE IF ~IsStr(conf["secretRing"]) /\ signerKeyRing(conf) = "" THEN Absent("keyRing")
    ELSE IF ~EntityFromSecring(conf["keyId"].v, signerKeyRing(conf)) THEN Absent("entity")
    ELSE IF conf["keyId"].v = "kx" THEN Absent("armor")
    ELSE IF ~IsStr(conf["selfPubKeyDir"]) THEN Absent("selfPubKeyDir")
    ELSE IF ~(conf["selfPubKeyDir"].v = "pubdir" /\ disk.pubDir = "dir") THEN Absent("stat")
    ELSE [ok |-> TRUE, armored |-> ArmoredPublicKey(conf["keyId"].v)]

UnchangedForSigner ==
    /\ UNCHANGED << configFile, client, exited, initTrustedCertsOnce >>
    /\ UnchangedInputs /\ UnchangedConfig

SignerPublicKeyBlobref(t) ==
    /\ Begin(t, "SignerPublicKeyBlobref", 0, "sig_once")
    /\ UnchangedForSigner /\ UnchangedSigner

\* SignerOnceDo letting a caller through while the first caller still runs.
SignerOnceDo_NoBlock(t) ==
    /\ At(t, "SignerPublicKeyBlobref", "sig_once")
    /\ \/ /\ signerPublicKeyRefOnce \in {"done", "running"}
          /\ Goto(t, "sig_ret")
          /\ UNCHANGED signerPublicKeyRefOnce
       \/ /\ signerPublicKeyRefOnce = "new"
          /\ signerPublicKeyRefOnce' = "running"
          /\ Acquire(t, "signer", "cfg_once")
    /\ UNCHANGED << signerPublicKeyRef, pubFile, sigRuns, pubStat, pubWrites, sigRets, calls >>
    /\ UnchangedForSigner

\* signerPublicKeyRefOnce.Do(initSignerPublicKeyBlobref)
SignerOnceDo(t) ==
    /\ At(t, "SignerPublicKeyBlobref", "sig_once")
    /\ \/ /\ signerPublicKeyRefOnce = "done"
          /\ Goto(t, "sig_ret")
          /\ UNCHANGED signerPublicKeyRefOnce
       \/ /\ signerPublicKeyRefOnce = "new"
          /\ signerPublicKeyRefOnce' = "running"
          /\ Acquire(t, "signer", "cfg_once")
    /\ UNCHANGED << signerPublicKeyRef, pubFile, sigRuns, pubStat, pubWrites, sigRets, calls >>
    /\ UnchangedForSigner

\* getSignerPublicKeyBlobref writing the blob file whatever os.Stat found.
getSignerPublicKeyBlobref_AlwaysWrite(t) ==
    /\ At(t, "SignerPublicKeyBlobref", "body")
    /\ sigRuns' = sigRuns + 1
    /\ LET r == signerLookup(config)
       IN  IF ~r.ok
           THEN /\ signerPublicKeyRef' = NilRef
                /\ signerPublicKeyRefOnce' = "done"
                /\ Release(t, "sig_ret")
                /\ UNCHANGED pubStat
           ELSE /\ pubStat' = IF pubFile # NoPubFile THEN "exists" ELSE "notexist"
                /\ Goto(t, "sig_write")
                /\ UNCHANGED << signerPublicKeyRef, signerPublicKeyRefOnce >>
    /\ UNCHANGED << pubFile, pubWrites, sigRets, calls >>
    /\ UnchangedForSigner

\* getSignerPublicKeyBlobref from its configuration reads to os.Stat(pubFile).
getSignerPublicKeyBlobref(t) ==
    /\ At(t, "SignerPublicKeyBlobref", "body")
    /\ sigRuns' = sigRuns + 1
    /\ LET r == signerLookup(config)
       IN  IF ~r.ok
           THEN /\ signerPublicKeyRef' = NilRef
                /\ signerPublicKeyRefOnce' = "done"
                /\ Release(t, "sig_ret")
                /\ UNCHANGED pubStat
           ELSE IF pubFile # NoPubFile
           THEN /\ pubStat' = "exists"
                /\ signerPublicKeyRef' = SHA1FromString(r.armored)
                /\ signerPublicKeyRefOnce' = "done"
                /\ Release(t, "sig_ret")
           ELSE /\ pubStat' = "notexist"
                /\ Goto(t, "sig_write")
                /\ UNCHANGED << signerPublicKeyRef, signerPublicKeyRefOnce >>
    /\ UNCHANGED << pubFile, pubWrites, sigRets, calls >>
    /\ UnchangedForSigner

\* writePubFile with WriteFile's error dropped: the address is the result.
writePubFile_IgnoreError(t) ==
    /\ At(t, "SignerPublicKeyBlobref", "sig_write")
    /\ pubWrites' = pubWrites + 1
    /\ pubFile' = IF disk.writable THEN PubFile(signerLookup(config).armored) ELSE pubFile
    /\ signerPublicKeyRef' = SHA1FromString(signerLookup(config).armored)
    /\ signerPublicKeyRefOnce' = "done"
    /\ Release(t, "sig_ret")
    /\ UNCHANGED << sigRuns, pubStat, sigRets, calls >>
    /\ UnchangedForSigner

\* ioutil.WriteFile(pubFile, armored): written, or an error and no identity.
writePubFile(t) ==
    /\ At(t, "SignerPublicKeyBlobref", "sig_write")
    /\ pubWrites' = pubWrites + 1
    /\ IF disk.writable
       THEN /\ pubFile' = PubFile(signerLookup(config).armored)
            /\ signerPublicKeyRef' = SHA1FromString(signerLookup(config).armored)
       ELSE /\ signerPublicKeyRef' = NilRef
            /\ UNCHANGED pubFile
    /\ signerPublicKeyRefOnce' = "done"
    /\ Release(t, "sig_ret")
    /\ UNCHANGED << sigRuns, pubStat, sigRets, calls >>
    /\ UnchangedForSigner

\* return signerPublicKeyRef
SignerReturn(t) ==
    /\ At(t, "SignerPublicKeyBlobref", "sig_ret")
    /\ Return(t, BlobRet(signerPublicKeyRef))
    /\ sigRets' = sigRets \cup {signerPublicKeyRef}
    /\ UNCHANGED << signerPublicKeyRefOnce, signerPublicKeyRef, pubFile, sigRuns, pubStat,
                    pubWrites, calls >>
    /\ UnchangedForSigner

-----------------------------------------------------------------------------
(* GetTrustedCerts *)

CertsRet(l) == [kind |-> "certs", v |-> l]

\* Index of the first element of l that is no string; Len(l) + 1 without one.
FirstNonString(l) ==
    LET bad == { i \in 1..Len(l) : ~IsStr(l[i]) }
    IN  IF bad = {} THEN Len(l) + 1 ELSE CHOOSE i \in bad : \A j \in bad : i <= j

\* trustedCertsFromConfig skipping an element that is no string (continue
\* in place of return).
trustedCertsFromConfig_SkipNonString(conf) ==
    LET val == conf["trustedCerts"]
        F[i \in 0..MaxCerts + 1] ==
            IF i = 0 THEN <<>>
            ELSE IF i > Len(val.v) THEN F[i - 1]
            ELSE IF IsStr(val.v[i]) THEN Append(F[i - 1], ToLower(val.v[i].v))
            ELSE F[i - 1]
    IN  IF val.t # "list" THEN <<>> ELSE F[Len(val.v)]

\* initTrustedCerts after configOnce.Do: the lowercased elements up to the
\* first that is no string; nothing when the key holds no list.
trustedCertsFromConfig(conf) ==
    LET val == conf["trustedCerts"]
    IN  IF val.t # "list" THEN <<>>
        ELSE [i \in 1..(FirstNonString(val.v) - 1) |-> ToLower(val.v[i].v)]

UnchangedForTrust ==
    /\ UNCHANGED << configFile, exited >>
    /\ UnchangedInputs /\ UnchangedConfig /\ UnchangedSigner

GetTrustedCerts(t, c) ==
    /\ Begin(t, "GetTrustedCerts", c, "trust_once")
    /\ UNCHANGED << client, initTrustedCertsOnce >>
    /\ UnchangedForTrust

\* initTrustedCertsOnce.Do(c.initTrustedCerts): one Once for every Client.
TrustOnceDo(t) ==
    /\ At(t, "GetTrustedCerts", "trust_once")
    /\ \/ /\ initTrustedCertsOnce = "done"
          /\ Goto(t, "trust_ret")
          /\ UNCHANGED initTrustedCertsOnce
       \/ /\ initTrustedCertsOnce = "new"
          /\ initTrustedCertsOnce' = "running"
          /\ Acquire(t, "trust", "trust_init")
    /\ UNCHANGED << client, calls >>
    /\ UnchangedForTrust

\* initTrustedCertsEnv going on to the configuration with the variable set.
initTrustedCertsEnv_NoShortCircuit(t) ==
    /\ At(t, "GetTrustedCerts", "trust_init")
    /\ client' = [client EXCEPT ![th[t].c].trustedCerts =
                      IF envTrustedCert # <<>> THEN << envTrustedCert >> ELSE <<>>]
    /\ Goto(t, "cfg_once")
    /\ UNCHANGED << initTrustedCertsOnce, calls >>
    /\ UnchangedForTrust

\* initTrustedCerts to its configOnce.Do: the environment variable alone, or
\* an empty list to fill from the configuration.
initTrustedCertsEnv(t) ==
    /\ At(t, "GetTrustedCerts", "trust_init")
    /\ IF envTrustedCert # <<>>
       THEN /\ client' = [client EXCEPT ![th[t].c].trustedCerts = << envTrustedCert >>]
            /\ initTrustedCertsOnce' = "done"
            /\ Release(t, "trust_ret")
       ELSE /\ client' = [client EXCEPT ![th[t].c].trustedCerts = <<>>]
            /\ Goto(t, "cfg_once")
            /\ UNCHANGED initTrustedCertsOnce
    /\ UNCHANGED calls
    /\ UnchangedForTrust

initTrustedCertsConfig(t) ==
    /\ At(t, "GetTrustedCerts", "body")
    /\ client' = [client EXCEPT ![th[t].c].trustedCerts = trustedCertsFromConfig(config)]
    /\ initTrustedCertsOnce' = "done"
    /\ Release(t, "trust_ret")
    /\ UNCHANGED calls
    /\ UnchangedForTrust

\* return c.trustedCerts
GetTrustedCertsReturn(t) ==
    /\ At(t, "GetTrustedCerts", "trust_ret")
    /\ Return(t, CertsRet(client[th[t].c].trustedCerts))
    /\ UNCHANGED << client, initTrustedCertsOnce, calls >>
    /\ UnchangedForTrust

-----------------------------------------------------------------------------
(* The environment of the process *)

UnchangedProcess ==
    /\ UNCHANGED << client, th, exited, calls, initTrustedCertsOnce >>
    /\ UNCHANGED << signerPublicKeyRefOnce, signerPublicKeyRef, sigRuns, pubStat, pubWrites, sigRets >>
    /\ UnchangedInputs /\ UnchangedConfig

\* Someone creates, rewrites or removes the configuration file.
ConfigFileChanges(f) ==
    /\ Running
    /\ configFile # f
    /\ configFile' = f
    /\ UNCHANGED pubFile
    /\ UnchangedProcess

\* Another process publishes the same key's blob file first.
OtherProcessWritesPubFile ==
    /\ Running
    /\ pubFile = NoPubFile
    /\ disk.pubDir = "dir"
    /\ pubFile' = PubFile(ArmoredPublicKey("k1"))
    /\ UNCHANGED configFile
    /\ UnchangedProcess

-----------------------------------------------------------------------------
(* Inputs *)

SchemeParts == { <<>>, HttpPrefix, HttpScheme, HttpsScheme }

\* Server strings: an optional scheme part, then a few of "a" and "/".
ServerStrings == { p \o s : p \in SchemeParts, s \in SeqsUpTo({"a", "/"}, MaxServerLen) }

InitProcess ==
    /\ configOnce = "new"
    /\ config = EmptyConfig
    /\ parseConfigErr = "nil"
    /\ signerPublicKeyRefOnce = "new"
    /\ signerPublicKeyRef = [t |-> "nil"]
    /\ initTrustedCertsOnce = "new"
    /\ client = [c \in Clients |-> [authMode |-> [t |-> "nil"], trustedCerts |-> <<>>]]
    /\ th = [t \in Threads |-> Idle]
    /\ exited = "no"
    /\ calls = 0
    /\ parseCount = 0
    /\ loaded = NotLoaded
    /\ sigRuns = 0
    /\ pubStat = "none"
    /\ pubWrites = 0
    /\ sigRets = {}

NoDisk == [rings |-> [p \in RingPaths |-> "nofile"], pubDir |-> "absent", writable |-> FALSE]

\* The server resolver alone, one goroutine, over every server string.
InitServer ==
    /\ InitProcess
    /\ flagServer \in ServerStrings
    /\ configFile \in {NoFile, Malformed}
            \cup { Parsed([EmptyConfig EXCEPT !["server"] = v]) :
                     v \in {Missing, Num} \cup { Str(s) : s \in ServerStrings } }
    /\ envTrustedCert = <<>>
    /\ envAuth = ""
    /\ disk = NoDisk
    /\ pubFile = NoPubFile

NextServer ==
    \/ serverOrDie(1)
    \/ serverOrDieFlag(1)
    \/ serverOrDieConfig(1)
    \/ ConfigOnceDo(1)
    \/ parseConfigStat(1)
    \/ parseConfigRead(1)

SpecServer == InitServer /\ [][NextServer]_vars

-----------------------------------------------------------------------------
(* Every accessor, from several goroutines, while the file changes on disk *)

FullConfig ==
    [server |-> Str(<<"a">>), auth |-> Str("userpass:alice:secret"),
     secretRing |-> Str("cfgring.gpg"), keyId |-> Str("k1"),
     selfPubKeyDir |-> Str("pubdir"), trustedCerts |-> List(<< Str(<<"A">>) >>)]

GoodDisk == [rings |-> [p \in RingPaths |-> "keys"], pubDir |-> "dir", writable |-> TRUE]

Files == {NoFile, Malformed, Parsed(FullConfig)}

Init ==
    /\ InitProcess
    /\ flagServer \in {<<>>, <<"a">>}
    /\ configFile \in Files
    /\ envTrustedCert = <<>>
    /\ envAuth = ""
    /\ disk = GoodDisk
    /\ pubFile = NoPubFile

Next ==
    \/ \E t \in Threads : serverOrDie(t)
    \/ \E t \in Threads : serverOrDieFlag(t)
    \/ \E t \in Threads : serverOrDieConfig(t)
    \/ \E t \in Threads, c \in Clients : SetupAuth(t, c)
    \/ \E t \in Threads : SetupAuthExplicit(t)
    \/ \E t \in Threads : SetupAuthFromConfig(t)
    \/ \E t \in Threads : SecretRingFile(t)
    \/ \E t \in Threads : SecretRingFileReturn(t)
    \/ \E t \in Threads : SignerPublicKeyBlobref(t)
    \/ \E t \in Threads : SignerOnceDo(t)
    \/ \E t \in Threads : getSignerPublicKeyBlobref(t)
    \/ \E t \in Threads : writePubFile(t)
    \/ \E t \in Threads : SignerReturn(t)
    \/ \E t \in Threads, c \in Clients : GetTrustedCerts(t, c)
    \/ \E t \in Threads : TrustOnceDo(t)
    \/ \E t \in Threads : initTrustedCertsEnv(t)
    \/ \E t \in Threads : initTrustedCertsConfig(t)
    \/ \E t \in Threads : GetTrustedCertsReturn(t)
    \/ \E t \in Threads : ConfigOnceDo(t)
    \/ \E t \in Threads : parseConfigStat(t)
    \/ \E t \in Threads : parseConfigRead(t)
    \/ \E f \in Files : ConfigFileChanges(f)

Spec == Init /\ [][Next]_vars

-----------------------------------------------------------------------------
(* The trust resolver, one goroutine, over every trustedCerts value *)

Fingerprints == SeqsUpTo({"A", "a"}, MaxFpLen) \ {<<>>}

CertElements == {Num} \cup { Str(f) : f \in Fingerprints }

TrustedCertsValues ==
    {Missing, Num} \cup { List(l) : l \in SeqsUpTo(CertElements, MaxCerts) }

TrustFiles ==
    {NoFile} \cup { Parsed([EmptyConfig EXCEPT !["trustedCerts"] = v]) : v \in TrustedCertsValues }

InitTrust ==
    /\ InitProcess
    /\ flagServer = <<>>
    /\ configFile \in TrustFiles
    /\ envTrustedCert \in {<<>>} \cup Fingerprints
    /\ envAuth = ""
    /\ disk = NoDisk
    /\ pubFile = NoPubFile

NextTrust ==
    \/ \E c \in Clients : GetTrustedCerts(1, c)
    \/ TrustOnceDo(1)
    \/ initTrustedCertsEnv(1)
    \/ initTrustedCertsConfig(1)
    \/ GetTrustedCertsReturn(1)
    \/ ConfigOnceDo(1)
    \/ parseConfigStat(1)
    \/ parseConfigRead(1)

SpecTrust == InitTrust /\ [][NextTrust]_vars

-----------------------------------------------------------------------------
(* The auth resolver, one goroutine, over every "auth" value, while the    *)
(* file changes on disk                                                    *)

AuthValues ==
    {Missing, Num, Str(""), Str("bogus"), Str("userpass:alice:secret")}

AuthFiles ==
    {NoFile, Malformed} \cup { Parsed([EmptyConfig EXCEPT !["auth"] = v]) : v \in AuthValues }

InitAuth ==
    /\ InitProcess
    /\ flagServer \in {<<>>, <<"a">>}
    /\ configFile \in AuthFiles
    /\ envTrustedCert = <<>>
    /\ envAuth \in {"", "bogus", "userpass:env:secret"}
    /\ disk = NoDisk
    /\ pubFile = NoPubFile

NextAuth ==
    \/ \E c \in Clients : SetupAuth(1, c)
    \/ SetupAuthExplicit(1)
    \/ SetupAuthFromConfig(1)
    \/ ConfigOnceDo(1)
    \/ parseConfigStat(1)
    \/ parseConfigRead(1)
    \/ \E f \in AuthFiles : ConfigFileChanges(f)

SpecAuth == InitAuth /\ [][NextAuth]_vars

-----------------------------------------------------------------------------
(* The identity resolver, one goroutine, over every keyId, keyring and     *)
(* selfPubKeyDir, while another process may publish the same blob          *)

IdentityFiles ==
    {NoFile, Malformed} \cup
    { Parsed([EmptyConfig EXCEPT !["keyId"] = k, !["secretRing"] = r, !["selfPubKeyDir"] = d]) :
        k \in {Missing, Num, Str("k1"), Str("kx"), Str("k9")},
        r \in {Missing, Num, Str(""), Str("cfgring.gpg")},
        d \in {Missing, Num, Str("pubdir"), Str("nodir")} }

Disks ==
    [rings : [RingPaths -> {"nofile", "keys"}], pubDir : {"dir", "absent"}, writable : BOOLEAN]

InitIdentity ==
    /\ InitProcess
    /\ flagServer = <<>>
    /\ configFile \in IdentityFiles
    /\ envTrustedCert = <<>>
    /\ envAuth = ""
    /\ disk \in Disks
    /\ pubFile \in {NoPubFile, PubFile(ArmoredPublicKey("k1")), PubFile(<<"garbage">>)}
    /\ pubFile # NoPubFile => disk.pubDir = "dir"

NextIdentity ==
    \/ SignerPublicKeyBlobref(1)
    \/ SignerOnceDo(1)
    \/ getSignerPublicKeyBlobref(1)
    \/ writePubFile(1)
    \/ SignerReturn(1)
    \/ SecretRingFile(1)
    \/ SecretRingFileReturn(1)
    \/ ConfigOnceDo(1)
    \/ parseConfigStat(1)
    \/ parseConfigRead(1)
    \/ OtherProcessWritesPubFile

SpecIdentity == InitIdentity /\ [][NextIdentity]_vars

-----------------------------------------------------------------------------
(* Claims *)

Returned(t, op) == th[t].pc = "idle" /\ th[t].op = op /\ th[t].ret # NoRet

K1Ref == SHA1FromString(ArmoredPublicKey("k1"))

\* C1: parseConfig runs at most once per process; no accessor reads the
\* configuration before the load is done, so every caller observes the same
\* config and parseConfigErr; and both stay as first loaded, whatever becomes
\* of the file on disk afterwards.
C1_ConfigLoadedAtMostOnce ==
    /\ parseCount <= 1
    /\ \A t \in Threads : th[t].pc = "body" => configOnce = "done"
    /\ configOnce = "done" =>
          /\ loaded.done
          /\ config = loaded.config
          /\ parseConfigErr = loaded.err
    /\ configOnce = "new" => config = EmptyConfig /\ parseConfigErr = "nil"

\* Two goroutines read the loaded configuration after the file, loaded with
\* its full content, was removed from disk.
C1_Witness ==
    /\ parseCount = 1
    /\ loaded.done /\ loaded.config = FullConfig
    /\ configFile = NoFile
    /\ \E t1, t2 \in Threads : t1 # t2 /\ th[t1].pc = "body" /\ th[t2].pc = "body"

\* C2: every GetTrustedCerts call, on whichever client instance, returns the
\* trust set derived from the environment variable or the configuration.
C2_TrustResolvedPerInstance ==
    \A t \in Threads :
        Returned(t, "GetTrustedCerts") =>
            th[t].ret.v = IF envTrustedCert # <<>> THEN << envTrustedCert >>
                          ELSE trustedCertsFromConfig(config)

C3_Idempotent(s) == cleanServer(cleanServer(s)) = cleanServer(s)

C3_OneSlashStripped(s) ==
    HasSuffix(s, <<"/">>) =>
        HasSuffix(cleanServer(s), SubSeq(s, 1, Len(s) - 1))

C3_SchemeAdded(s) ==
    ~HasPrefix(s, HttpPrefix) => HasPrefix(cleanServer(s), HttpsScheme)

\* C3: cleanServer is idempotent, strips exactly one trailing slash, and
\* prepends "https://" to a string without an http/https prefix; stated of
\* every flag value serverOrDie has normalized.
C3_CleanServerIdempotent ==
    \A t \in Threads :
        Returned(t, "serverOrDie") /\ flagServer # <<>> =>
            /\ th[t].ret.v = cleanServer(flagServer)
            /\ C3_Idempotent(flagServer)
            /\ C3_OneSlashStripped(flagServer)
            /\ C3_SchemeAdded(flagServer)

\* C4: every server URL serverOrDie returns starts with http:// or https://
\* and does not end with a slash.
C4_ServerHasSchemeAndNoSlash ==
    \A t \in Threads :
        Returned(t, "serverOrDie") =>
            /\ HasPrefix(th[t].ret.v, HttpScheme) \/ HasPrefix(th[t].ret.v, HttpsScheme)
            /\ ~HasSuffix(th[t].ret.v, <<"/">>)

\* C5: without an explicit server, serverOrDie returns a value only when the
\* configuration's "server" key holds a non-empty string.
C5_MissingOrEmptyServerIsFatal ==
    \A t \in Threads :
        Returned(t, "serverOrDie") /\ flagServer = <<>> =>
            IsStr(config["server"]) /\ config["server"].v # <<>>

\* C6: with an explicit server, SetupAuth never loads the configuration, the
\* client's auth mode comes from the environment alone, and with no auth in
\* the environment the call returns ErrNoAuth; for every content of the file.
C6_ExplicitServerIgnoresFileAuth ==
    flagServer # <<>> =>
        /\ parseCount = 0 /\ configOnce = "new" /\ config = EmptyConfig
        /\ \A c \in Clients :
              /\ client[c].authMode.t \in {"nil", "env"}
              /\ client[c].authMode.t = "env" => client[c].authMode.v = envAuth
        /\ \A t \in Threads :
              Returned(t, "SetupAuth") =>
                  /\ envAuth = "" => th[t].ret = AuthRet("ErrNoAuth")
                  /\ th[t].ret.err = "nil" => envAuth \in ValidAuthStrings

\* SetupAuth returned ErrNoAuth under an explicit server while the file on
\* disk holds a valid "auth" key.
C6_Witness ==
    /\ flagServer # <<>>
    /\ envAuth = ""
    /\ configFile = Parsed([EmptyConfig EXCEPT !["auth"] = Str("userpass:alice:secret")])
    /\ \E t \in Threads : Returned(t, "SetupAuth") /\ th[t].ret = AuthRet("ErrNoAuth")

\* C7: every SignerPublicKeyBlobref call returns the same value; with a valid
\* keyId, keyring and selfPubKeyDir (and a writable directory) that value is
\* the key's content address; the blob file is written at most once; and when
\* os.Stat found the file, it is not written and the address is the result.
C7_IdentityResolutionIdempotent ==
    /\ Cardinality(sigRets) <= 1
    /\ pubWrites <= 1
    /\ loaded.done /\ signerLookup(config).ok /\ disk.writable => sigRets \subseteq {K1Ref}
    /\ pubStat = "exists" =>
          /\ pubWrites = 0
          /\ signerPublicKeyRefOnce = "done"
          /\ signerPublicKeyRef = K1Ref
          /\ sigRets \subseteq {K1Ref}

\* A second call is about to return the address the first returned, after the
\* one write of the blob file.
C7_Witness ==
    /\ pubWrites = 1
    /\ pubFile = PubFile(ArmoredPublicKey("k1"))
    /\ \E t \in Threads :
          /\ th[t].pc = "sig_ret"
          /\ K1Ref \in sigRets
          /\ signerPublicKeyRef = K1Ref

\* C8: every fingerprint GetTrustedCerts returns is in lowercased form.
C8_FingerprintsLowercased ==
    \A t \in Threads :
        Returned(t, "GetTrustedCerts") =>
            \A i \in 1..Len(th[t].ret.v) : th[t].ret.v[i] = ToLower(th[t].ret.v[i])

\* C9: when the loaded configuration has no string-valued keyId (no file
\* included), identity resolution returns absent and writes no file.
C9_NoKeyIdNoFile ==
    loaded.done /\ ~IsStr(config["keyId"]) =>
        /\ pubWrites = 0
        /\ \A t \in Threads : th[t].pc # "sig_write"
        /\ sigRets \subseteq {NilRef}
        /\ signerPublicKeyRefOnce = "done" => signerPublicKeyRef = NilRef

\* Resolution returned absent for a configuration without keyId, with the
\* keyrings and a writable selfPubKeyDir in place, and no blob file exists.
C9_Witness ==
    /\ loaded.done /\ loaded.err = "nil"
    /\ ~IsStr(config["keyId"])
    /\ config["selfPubKeyDir"] = Str("pubdir")
    /\ disk = GoodDisk
    /\ pubFile = NoPubFile
    /\ \E t \in Threads : Returned(t, "SignerPublicKeyBlobref") /\ th[t].ret = BlobRet(NilRef)

\* C10: GetTrustedCerts returns no partial list: resolved from a trustedCerts
\* list, the result holds every configured entry or none.
C10_NoPartialTrustList ==
    \A t \in Threads :
        Returned(t, "GetTrustedCerts") /\ envTrustedCert = <<>> /\ config["trustedCerts"].t = "list" =>
            Len(th[t].ret.v) \in {0, Len(config["trustedCerts"].v)}

\* r is the lowercased strings of l that precede l's first element that is
\* no string.
IsLoweredStringPrefix(r, l) ==
    /\ Len(r) <= Len(l)
    /\ \A i \in 1..Len(r) : IsStr(l[i]) /\ r[i] = ToLower(l[i].v)
    /\ Len(r) < Len(l) => ~IsStr(l[Len(r) + 1])

\* C11: with the environment variable unset, the trust set resolved from a
\* trustedCerts list (returned by the call that resolves it, the run's first)
\* is the lowercased strings before the list's first non-string element, in
\* order; no client ever holds anything else.
C11_TrustIsLoweredPrefix ==
    envTrustedCert = <<>> /\ loaded.done /\ config["trustedCerts"].t = "list" =>
        /\ \A t \in Threads :
              Returned(t, "GetTrustedCerts") /\ calls = 1 =>
                  IsLoweredStringPrefix(th[t].ret.v, config["trustedCerts"].v)
        /\ \A c \in Clients :
              \/ client[c].trustedCerts = <<>>
              \/ IsLoweredStringPrefix(client[c].trustedCerts, config["trustedCerts"].v)

\* The list ["A", 5] resolved to ["a"].
C11_Witness ==
    /\ envTrustedCert = <<>>
    /\ config["trustedCerts"] = List(<< Str(<<"A">>), Num >>)
    /\ \E t \in Threads : Returned(t, "GetTrustedCerts") /\ th[t].ret.v = << <<"a">> >>

\* C12: with the environment variable set, the resolved trust set is that
\* value alone and resolution does not load the configuration.
C12_EnvTrustShortCircuits ==
    envTrustedCert # <<>> =>
        /\ parseCount = 0 /\ configOnce = "new" /\ config = EmptyConfig
        /\ \A t \in Threads :
              Returned(t, "GetTrustedCerts") /\ calls = 1 => th[t].ret.v = << envTrustedCert >>
        /\ \A c \in Clients : client[c].trustedCerts \in { <<>>, << envTrustedCert >> }

\* The variable's value was returned alone while the file holds a list.
C12_Witness ==
    /\ envTrustedCert = <<"a">>
    /\ configFile = Parsed([EmptyConfig EXCEPT !["trustedCerts"] = List(<< Str(<<"A">>) >>)])
    /\ \E t \in Threads : Returned(t, "GetTrustedCerts") /\ th[t].ret.v = << <<"a">> >>

\* C13 as claimed: identity resolution, its configuration load included,
\* never aborts the process.
C13_IdentityNeverAborts ==
    \A t \in Threads :
        th[t].op = "SignerPublicKeyBlobref" /\ th[t].pc # "idle" => exited = "no"

\* C13, amended: the process is aborted only by parseConfig's ReadFile on a
\* configuration file that exists and cannot be read or parsed; a missing
\* file and every failing sub-step after the load (keyId, keyring, lookup,
\* serialization, selfPubKeyDir, blob write) leave an absent handle.
C13_OnlyUnparsableConfigAborts ==
    /\ exited \in {"no", "fatal"}
    /\ exited = "fatal" =>
          \E t \in Threads : th[t].pc = "parse_read" /\ configFile.t # "object"
    /\ loaded.done /\ ~signerLookup(config).ok =>
          /\ \A t \in Threads : th[t].pc # "sig_write"
          /\ signerPublicKeyRefOnce = "done" => signerPublicKeyRef = NilRef
          /\ sigRets \subseteq {NilRef}
    /\ pubWrites > 0 /\ ~disk.writable =>
          /\ signerPublicKeyRef = NilRef
          /\ sigRets \subseteq {NilRef}

\* The blob write failed and resolution returned absent; the process runs.
C13_Witness ==
    /\ exited = "no"
    /\ pubWrites = 1 /\ ~disk.writable
    /\ \E t \in Threads : Returned(t, "SignerPublicKeyBlobref") /\ th[t].ret = BlobRet(NilRef)

\* C14: without an explicit server, SetupAuth takes the auth mode from the
\* configuration's "auth" key when the key is present and from the
\* environment only when it is absent; a malformed auth string's error is
\* what the caller gets, whatever the environment holds.
C14_AuthFromConfigKey ==
    flagServer = <<>> /\ loaded.done =>
        /\ \A c \in Clients :
              /\ config["auth"] # Missing => client[c].authMode.t \in {"nil", "config"}
              /\ config["auth"] = Missing => client[c].authMode.t \in {"nil", "env"}
              /\ client[c].authMode.t = "config" => config["auth"] = Str(client[c].authMode.v)
        /\ \A t \in Threads :
              Returned(t, "SetupAuth") =>
                  /\ IsStr(config["auth"]) /\ config["auth"].v # "" =>
                        th[t].ret.err = IF config["auth"].v \in ValidAuthStrings
                                        THEN "nil" ELSE "ErrMalformed"
                  /\ config["auth"] # Missing => th[t].ret.err # "ErrNoAuth"
                  /\ config["auth"] = Missing =>
                        th[t].ret.err = IF envAuth = "" THEN "ErrNoAuth"
                                        ELSE IF envAuth \in ValidAuthStrings THEN "nil"
                                        ELSE "ErrMalformed"

\* SetupAuth returned the malformed "auth" string's error although the
\* environment holds a valid auth setting.
C14_Witness ==
    /\ flagServer = <<>>
    /\ config["auth"] = Str("bogus")
    /\ envAuth = "userpass:env:secret"
    /\ \E t \in Threads : Returned(t, "SetupAuth") /\ th[t].ret = AuthRet("ErrMalformed")
    /\ \A c \in Clients : client[c].authMode = NilAuth

\* Goroutines inside initSignerPublicKeyBlobref.
InSignerInit ==
    { t \in Threads : /\ th[t].op = "SignerPublicKeyBlobref"
                      /\ th[t].pc \in {"cfg_once", "parse_stat", "parse_read", "body", "sig_write"} }

\* C15: public-key resolution runs once per process under every
\* interleaving: one goroutine at a time is inside it, the lookup and the
\* write happen at most once, no caller gets past the Once before the result
\* is published, and every caller returns the published result, an absent
\* one included.
C15_SignerResolvedExactlyOnce ==
    /\ sigRuns <= 1
    /\ pubWrites <= 1
    /\ Cardinality(InSignerInit) <= 1
    /\ InSignerInit # {} /\ Running => signerPublicKeyRefOnce = "running"
    /\ \A t \in Threads :
          /\ th[t].pc = "sig_ret" => signerPublicKeyRefOnce = "done"
          /\ Returned(t, "SignerPublicKeyBlobref") =>
                /\ signerPublicKeyRefOnce = "done"
                /\ th[t].ret = BlobRet(signerPublicKeyRef)
    /\ signerPublicKeyRefOnce = "done" => sigRuns = 1 /\ sigRets \subseteq {signerPublicKeyRef}

\* One goroutine is about to write the blob file while another waits at the
\* Once.
C15_Witness ==
    /\ signerPublicKeyRefOnce = "running"
    /\ \E t1, t2 \in Threads :
          /\ th[t1].op = "SignerPublicKeyBlobref" /\ th[t1].pc = "sig_write"
          /\ th[t2].op = "SignerPublicKeyBlobref" /\ th[t2].pc = "sig_once"

\* The goroutine's next step assigns c.authMode (SetupAuth holds no lock).
WritesAuthMode(t) == th[t].op = "SetupAuth" /\ th[t].pc \in {"auth_env", "body"}

\* The goroutine's next step assigns c.trustedCerts, or reads it.
WritesTrustedCerts(t) == th[t].op = "GetTrustedCerts" /\ th[t].pc \in {"trust_init", "body"}
ReadsTrustedCerts(t) == th[t].op = "GetTrustedCerts" /\ th[t].pc = "trust_ret"

\* C16: on one shared client, no two goroutines are about to write authMode
\* or trustedCerts at once, and none is about to read trustedCerts while
\* another is about to write it.
C16_NoConcurrentFieldAccess ==
    \A t1, t2 \in Threads :
        t1 # t2 /\ th[t1].c = th[t2].c /\ Running =>
            /\ ~(WritesAuthMode(t1) /\ WritesAuthMode(t2))
            /\ ~(WritesTrustedCerts(t1) /\ WritesTrustedCerts(t2))
            /\ ~(WritesTrustedCerts(t1) /\ ReadsTrustedCerts(t2))

\* The trustedCerts part of C16 alone, which the Once does ensure.
C16_TrustedCertsPart ==
    \A t1, t2 \in Threads :
        t1 # t2 /\ th[t1].c = th[t2].c /\ Running =>
            /\ ~(WritesTrustedCerts(t1) /\ WritesTrustedCerts(t2))
            /\ ~(WritesTrustedCerts(t1) /\ ReadsTrustedCerts(t2))

\* C17: once resolution has produced a non-absent address, the blob file
\* exists and holds the armored key whose hash is that address, whatever the
\* directory held before.
C17_ResolvedKeyIsPublished ==
    signerPublicKeyRefOnce = "done" /\ signerPublicKeyRef # NilRef =>
        /\ pubFile # NoPubFile
        /\ SHA1FromString(pubFile.data) = signerPublicKeyRef

\* The next step of goroutine t inside the call it is in.
Stepping(t) ==
    \/ serverOrDieFlag(t) \/ serverOrDieConfig(t)
    \/ SetupAuthExplicit(t) \/ SetupAuthFromConfig(t)
    \/ SecretRingFileReturn(t)
    \/ SignerOnceDo(t) \/ getSignerPublicKeyBlobref(t) \/ writePubFile(t) \/ SignerReturn(t)
    \/ TrustOnceDo(t) \/ initTrustedCertsEnv(t) \/ initTrustedCertsConfig(t)
    \/ GetTrustedCertsReturn(t)
    \/ ConfigOnceDo(t) \/ parseConfigStat(t) \/ parseConfigRead(t)

\* The Once whose Do goroutine t is entering.
WaitsFor(t) ==
    CASE th[t].pc = "sig_once" -> "signer"
      [] th[t].pc = "trust_once" -> "trust"
      [] th[t].pc = "cfg_once" -> "config"
      [] OTHER -> "none"

\* The orders in which a goroutine is inside the functions of the Onces.
OnceNestings ==
    { <<>>, <<"signer">>, <<"trust">>, <<"config">>,
      <<"signer", "config">>, <<"trust", "config">> }

\* C18: the lazy initializers never deadlock. A goroutine is inside the Once
\* functions only in the order public-key Once or trusted-certs Once, then
\* config Once; it enters the public-key and trusted-certs Onces holding
\* none and the config Once not holding it; a returned call holds none; and
\* while the process runs, a goroutine inside a call either can take its
\* next step or waits at a Once whose function another goroutine is inside,
\* and that goroutine can step or, the Once not being the config Once, waits
\* at the config Once in its turn.
C18_LazyInitNeverDeadlocks ==
    \A t \in Threads :
        /\ th[t].held \in OnceNestings
        /\ th[t].pc \in {"sig_once", "trust_once"} => th[t].held = <<>>
        /\ th[t].pc = "cfg_once" => th[t].held \in {<<>>, <<"signer">>, <<"trust">>}
        /\ th[t].pc = "idle" => th[t].held = <<>>
        /\ Running /\ th[t].pc # "idle" /\ ~ENABLED Stepping(t) =>
              /\ WaitsFor(t) # "none"
              /\ \E u \in Threads \ {t} :
                    /\ \E i \in 1..Len(th[u].held) : th[u].held[i] = WaitsFor(t)
                    /\ \/ ENABLED Stepping(u)
                       \/ WaitsFor(t) # "config" /\ WaitsFor(u) = "config"

\* One goroutine loads the configuration inside public-key resolution while
\* another, inside trusted-certs resolution, waits at the config Once.
C18_Witness ==
    /\ Running
    /\ configOnce = "running"
    /\ \E t1, t2 \in Threads :
          /\ th[t1].held = <<"signer", "config">> /\ th[t1].pc = "parse_read"
          /\ th[t2].held = <<"trust">> /\ th[t2].pc = "cfg_once"

\* getSignerPublicKeyBlobref gets as far as jsonsign.EntityFromSecring.
ReachesKeyringLookup(conf) ==
    /\ IsStr(conf["keyId"])
    /\ IsStr(conf["secretRing"]) \/ signerKeyRing(conf) # ""

\* C19: whenever identity resolution has reached its keyring lookup, the
\* keyring it looked in is the one Client.SecretRingFile reports for the same
\* configuration and files.
C19_SameKeyringAsSecretRingFile ==
    signerPublicKeyRefOnce = "done" /\ ReachesKeyringLookup(config) =>
        signerKeyRing(config) = secretRingFromConfig(config)

====
